---- MODULE Spec2Model ----
(***************************************************************************)
(* WebChat: a single-room chat.  The edge function (Hono routes over the   *)
(* key-value table kv_store_98c5d13a) and the React client App.            *)
(*                                                                         *)
(* Texts are sequences of one-character strings, so that trim() and the    *)
(* regular expressions of the client are computed character by character.  *)
(* JSON null is the string Null; an undefined field is a field that is not *)
(* in the DOMAIN of the record.                                            *)
(***************************************************************************)
EXTENDS Integers, Sequences, FiniteSets, TLC

VARIABLES
    kv,              \* the table kv_store_98c5d13a: key -> JSON value
    now,             \* Date.now(), in milliseconds
    resp,            \* the last HTTP response the server produced
    fetches,         \* client: fetchMessages calls not yet answered
    messages,        \* client: useState<Message[]>
    inputText,       \* client: the message input
    replyingTo,      \* client: the message being replied to, or NoMsg
    editingMessage,  \* client: the message being edited, or NoMsg
    displayName,     \* client: the name messages are sent under
    isLoggedInUser,  \* client: a name was entered
    settings,        \* per client: useState<Settings>
    page,            \* per client: the page is open, its refs and its interval
    served,          \* the last /presence or /stats request served, and when
    handlers,        \* POST /presence handlers between kv.get and kv.set
    started,         \* history: POST /presence requests received so far
    completedNew,    \* history: completed requests that had isNewVisit = true
    everOverlap,     \* history: two handlers were in progress at once
    view,            \* client: what renderMessageContent made of a message
    responses,       \* GET /messages responses on their way to the client
    lastRead         \* history: the answer of the GET /messages served last

serverVars == <<kv, now, resp>>
chatVars == <<fetches, messages, inputText, replyingTo, editingMessage,
              displayName, isLoggedInUser>>
settingsVars == <<settings>>
presenceVars == <<page, served, handlers, started, completedNew, everOverlap>>

\* what the actions of each part leave alone
renderVars == <<view>>

fetchVars == <<responses, lastRead>>

offChat == <<settingsVars, presenceVars, renderVars, fetchVars>>
offSettings == <<chatVars, presenceVars, renderVars, fetchVars>>
offPresence == <<chatVars, settingsVars, renderVars, fetchVars>>
offRender == <<settingsVars, presenceVars, fetchVars>>
offFetch == <<settingsVars, presenceVars, renderVars>>

vars == <<serverVars, chatVars, settingsVars, presenceVars, renderVars,
          fetchVars>>

-----------------------------------------------------------------------------
(* Bounds of the model *)

MaxTime == 1        \* the clock of the chat runs over 0 .. MaxTime
MaxInFlight == 1    \* fetchMessages calls in flight at once
MaxBeats == 2       \* the clock of presence runs over 0 .. MaxBeats intervals
MaxViews == 3       \* page loads are counted up to this many views
MaxRequests == 3    \* POST /presence requests received in one behaviour
MaxParts == 4       \* parts of markup in a typed text

-----------------------------------------------------------------------------
(* JSON values *)

Null == "null"

\* null as the value of a field that otherwise holds a text
NullText == <<Null>>

NoMsg == [none |-> TRUE]

Min(S) == CHOOSE x \in S : \A y \in S : x <= y
Max(S) == CHOOSE x \in S : \A y \in S : x >= y

IsSpace(c) == c \in {" ", "\n", "\t"}

\* String.prototype.trim
Trim(s) ==
    LET keep == {i \in 1..Len(s) : ~IsSpace(s[i])}
    IN  IF keep = {} THEN <<>> ELSE SubSeq(s, Min(keep), Max(keep))

\* x || null for a string-valued field f of the object o
OrNull(o, f) ==
    IF f \in DOMAIN o /\ o[f] # "" /\ o[f] # Null THEN o[f] ELSE Null

\* an object of the changes alone
SpreadChangesOnly(o, changes) == changes

\* { ...o, ...changes }
Spread(o, changes) == changes @@ o

-----------------------------------------------------------------------------
(* The key-value table: key is the primary key, value is NOT NULL *)

KvHas(t, key) == key \in DOMAIN t

KvGet(t, key) == t[key]

KvSet(t, key, value) ==
    [k \in DOMAIN t \cup {key} |-> IF k = key THEN value ELSE t[k]]

KvMdel(t, keys) == [k \in DOMAIN t \ keys |-> t[k]]

MsgKey(id) == "msg_" \o id

SettingsKey == "chat_settings"
StatsKey == "chat_stats"

\* the keys LIKE 'msg_%' among the keys the handlers write
MsgKeys(t) == DOMAIN t \ {SettingsKey, StatsKey}

KvGetByPrefixMsg(t) == {t[k] : k \in MsgKeys(t)}

EmptyTable == [k \in {} |-> Null]

-----------------------------------------------------------------------------
(* The edge function: one operator per route.  Each takes the table (and   *)
(* the request body) and gives the table and the response it leaves.       *)

Password == "Ramakrishna"

Reply(t, r) == [kv |-> t, resp |-> r]

Routes ==
    { <<"GET", "/messages">>, <<"POST", "/messages">>,
      <<"POST", "/messages/delete">>, <<"POST", "/messages/edit">>,
      <<"POST", "/upload">>, <<"GET", "/settings">>, <<"POST", "/settings">>,
      <<"GET", "/stats">>, <<"POST", "/presence">>,
      <<"POST", "/upload-background">> }

\* Hono answers a request that matches no route with 404 Not Found (text)
NotFound(t) == Reply(t, [status |-> 404])

\* the documents in any order, as the table returned them
Unsorted(docs) ==
    { s \in [1..Cardinality(docs) -> docs] :
        \A i, j \in DOMAIN s : i < j => s[i] # s[j] }

\* messages.sort((a, b) => a.timestamp - b.timestamp): the order of equal
\* timestamps is the order the table returned them in, which is not fixed
SortedByTimestamp(docs) ==
    { s \in [1..Cardinality(docs) -> docs] :
        /\ \A i, j \in DOMAIN s : i < j => s[i] # s[j]
        /\ \A i, j \in DOMAIN s : i < j => s[i].timestamp <= s[j].timestamp }

\* GET /messages: the lists it can answer with
GetMessages(t) == SortedByTimestamp(KvGetByPrefixMsg(t))

\* POST /messages
PostMessages(t, body) ==
    LET copied == {"id", "username", "text", "timestamp"} \cap DOMAIN body
        message ==
            [f \in copied \cup {"replyTo", "fileUrl", "fileType", "fileName"} |->
                IF f \in copied THEN body[f] ELSE OrNull(body, f)]
    IN  Reply(KvSet(t, MsgKey(body.id), message),
              [status |-> 200, success |-> TRUE])

\* POST /messages when kv.set throws (the table cannot be reached): the
\* catch answers 500 and nothing is stored
PostMessagesFails(t) == Reply(t, [status |-> 500, success |-> FALSE])

\* a delete that does not check the password
DeleteMessagesNoPassword(t, body) ==
    Reply(KvMdel(t, {MsgKey(id) : id \in body.ids}),
          [status |-> 200, success |-> TRUE])

\* a delete that removes the stats document with the messages
DeleteMessagesAndStats(t, body) ==
    IF body.password # Password
    THEN Reply(t, [status |-> 403, success |-> FALSE])
    ELSE Reply(KvMdel(t, {MsgKey(id) : id \in body.ids} \cup {StatsKey}),
               [status |-> 200, success |-> TRUE])

\* a delete that also removes the replies to the messages it deletes
DeleteMessagesCascade(t, body) ==
    IF body.password # Password
    THEN Reply(t, [status |-> 403, success |-> FALSE])
    ELSE Reply(KvMdel(t, {MsgKey(id) : id \in body.ids}
                         \cup {k \in MsgKeys(t) : t[k].replyTo \in body.ids}),
               [status |-> 200, success |-> TRUE])

\* POST /messages/delete
DeleteMessages(t, body) ==
    IF body.password # Password
    THEN Reply(t, [status |-> 403, success |-> FALSE])
    ELSE Reply(KvMdel(t, {MsgKey(id) : id \in body.ids}),
               [status |-> 200, success |-> TRUE])

\* a newText that is a JSON number, not a string
NumberText == <<"#number">>

\* an edit that does not compare the username with the author
EditMessageAnyone(t, body, time) ==
    IF \/ "id" \notin DOMAIN body \/ body.id = ""
       \/ "newText" \notin DOMAIN body \/ body.newText = NumberText
       \/ "username" \notin DOMAIN body \/ body.username = <<>>
    THEN Reply(t, [status |-> 400, success |-> FALSE])
    ELSE IF ~KvHas(t, MsgKey(body.id))
    THEN Reply(t, [status |-> 404, success |-> FALSE])
    ELSE Reply(KvSet(t, MsgKey(body.id),
                     Spread(KvGet(t, MsgKey(body.id)),
                            [text |-> Trim(body.newText), editedAt |-> time])),
               [status |-> 200, success |-> TRUE])

\* POST /messages/edit: body fields id, newText, username; a field left out
\* is undefined
EditMessage(t, body, time) ==
    IF \/ "id" \notin DOMAIN body \/ body.id = ""
       \/ "newText" \notin DOMAIN body \/ body.newText = NumberText
       \/ "username" \notin DOMAIN body \/ body.username = <<>>
    THEN Reply(t, [status |-> 400, success |-> FALSE])
    ELSE IF ~KvHas(t, MsgKey(body.id))
    THEN Reply(t, [status |-> 404, success |-> FALSE])
    ELSE LET existingMessage == KvGet(t, MsgKey(body.id)) IN
         IF existingMessage.username # body.username
         THEN Reply(t, [status |-> 403, success |-> FALSE])
         ELSE LET updatedMessage ==
                      Spread(existingMessage,
                             [text |-> Trim(body.newText), editedAt |-> time])
              IN  Reply(KvSet(t, MsgKey(body.id), updatedMessage),
                        [status |-> 200, success |-> TRUE])

\* JSON values that are no object: a document is a record without the field
\* json.  false, 0 and "" are falsy in JavaScript, and so is null
JsonFalse == [json |-> "false"]
JsonZero == [json |-> "0"]
JsonEmptyString == [json |-> "empty string"]
JsonNull == [json |-> "null"]
Falsy(value) == value \in {JsonFalse, JsonZero, JsonEmptyString, JsonNull}

\* panelOpacity is in hundredths: 0.85 is 85
DefaultSettings == [backgroundImage |-> NullText, panelColor |-> "#1a1a1a",
                    iconColor |-> "#64b5f6", panelOpacity |-> 85]

\* GET /settings
GetSettings(t) ==
    Reply(t, [status |-> 200, success |-> TRUE,
              settings |-> IF KvHas(t, SettingsKey) /\ ~Falsy(KvGet(t, SettingsKey))
                           THEN KvGet(t, SettingsKey)
                           ELSE DefaultSettings])

\* a POST /settings that merges the body into the stored document
PostSettingsMerge(t, body) ==
    IF body = JsonNull
    THEN Reply(t, [status |-> 500, success |-> FALSE])
    ELSE Reply(KvSet(t, SettingsKey,
                     IF KvHas(t, SettingsKey) /\ ~Falsy(body)
                        /\ ~Falsy(KvGet(t, SettingsKey))
                     THEN Spread(KvGet(t, SettingsKey), body) ELSE body),
               [status |-> 200, success |-> TRUE])

\* POST /settings: kv.set throws on a null value (the column is NOT NULL),
\* and the catch answers 500
PostSettings(t, body) ==
    IF body = JsonNull
    THEN Reply(t, [status |-> 500, success |-> FALSE])
    ELSE Reply(KvSet(t, SettingsKey, body), [status |-> 200, success |-> TRUE])

\* the inactivity window of both clean-ups, in milliseconds
PresenceWindow == 10000

\* kv.get('chat_stats') || { views: 0, onlineUsers: [] }
StatsOrDefault(t) ==
    IF KvHas(t, StatsKey) THEN KvGet(t, StatsKey)
    ELSE [views |-> 0, onlineUsers |-> <<>>]

\* a clean-up that keeps every record
CleanUpNone(users, time) == users

\* onlineUsers.filter(user => now - user.lastSeen < 10000)
CleanUp(users, time) ==
    SelectSeq(users, LAMBDA user : time - user.lastSeen < PresenceWindow)

\* GET /stats: the clean-up is applied to the answer, nothing is stored
GetStats(t, time) ==
    LET stats == StatsOrDefault(t)
    IN  Reply(t, [status |-> 200, success |-> TRUE, views |-> stats.views,
                  onlineCount |-> Len(CleanUp(stats.onlineUsers, time))])

\* if (isNewVisit): the field is absent from a leave beacon
IsNewVisit(body) == "isNewVisit" \in DOMAIN body /\ body.isNewVisit

\* onlineUsers.findIndex(u => u.id === userId), 0 for -1
FindIndex(users, userId) ==
    IF \E i \in DOMAIN users : users[i].id = userId
    THEN Min({ i \in DOMAIN users : users[i].id = userId })
    ELSE 0

\* a handler that counts a view for every request
UpdateStatsCountAll(stats, body, time) ==
    LET userIndex == FindIndex(stats.onlineUsers, body.userId)
        seen == IF userIndex > 0
                THEN [stats.onlineUsers EXCEPT ![userIndex].lastSeen = time]
                ELSE Append(stats.onlineUsers,
                            [id |-> body.userId, lastSeen |-> time])
    IN  [views |-> stats.views + 1, onlineUsers |-> CleanUp(seen, time)]

\* a handler that leaves the lastSeen of a known user as it was
UpdateStatsNoRefresh(stats, body, time) ==
    LET views == IF IsNewVisit(body) THEN stats.views + 1 ELSE stats.views
        userIndex == FindIndex(stats.onlineUsers, body.userId)
        seen == IF userIndex > 0
                THEN stats.onlineUsers
                ELSE Append(stats.onlineUsers,
                            [id |-> body.userId, lastSeen |-> time])
    IN  [views |-> views, onlineUsers |-> CleanUp(seen, time)]

\* a handler that adds a record on every request
UpdateStatsAlwaysPush(stats, body, time) ==
    LET views == IF IsNewVisit(body) THEN stats.views + 1 ELSE stats.views
        seen == Append(stats.onlineUsers,
                       [id |-> body.userId, lastSeen |-> time])
    IN  [views |-> views, onlineUsers |-> CleanUp(seen, time)]

\* a handler that forgets the views on a request that is no new visit
UpdateStatsForgetViews(stats, body, time) ==
    LET userIndex == FindIndex(stats.onlineUsers, body.userId)
        seen == IF userIndex > 0
                THEN [stats.onlineUsers EXCEPT ![userIndex].lastSeen = time]
                ELSE Append(stats.onlineUsers,
                            [id |-> body.userId, lastSeen |-> time])
    IN  [views |-> IF IsNewVisit(body) THEN stats.views + 1 ELSE 0,
         onlineUsers |-> CleanUp(seen, time)]

\* POST /presence between kv.get and kv.set: the document it will store
UpdateStats(stats, body, time) ==
    LET views == IF IsNewVisit(body) THEN stats.views + 1 ELSE stats.views
        userIndex == FindIndex(stats.onlineUsers, body.userId)
        seen == IF userIndex > 0
                THEN [stats.onlineUsers EXCEPT ![userIndex].lastSeen = time]
                ELSE Append(stats.onlineUsers,
                            [id |-> body.userId, lastSeen |-> time])
    IN  [views |-> views, onlineUsers |-> CleanUp(seen, time)]

\* POST /presence: kv.set and the response
StoreStats(t, stats) ==
    Reply(KvSet(t, StatsKey, stats),
          [status |-> 200, success |-> TRUE, views |-> stats.views,
           onlineCount |-> Len(stats.onlineUsers)])

\* POST /presence handled without another request in between
Presence(t, body, time) ==
    StoreStats(t, UpdateStats(StatsOrDefault(t), body, time))

\* the router: the handler of (method, path), or Hono's 404
Serve(t, method, path, body, time) ==
    IF <<method, path>> \notin Routes THEN NotFound(t)
    ELSE IF <<method, path>> = <<"POST", "/messages">> THEN PostMessages(t, body)
    ELSE IF <<method, path>> = <<"POST", "/messages/delete">> THEN DeleteMessages(t, body)
    ELSE IF <<method, path>> = <<"POST", "/messages/edit">> THEN EditMessage(t, body, time)
    ELSE IF <<method, path>> = <<"GET", "/settings">> THEN GetSettings(t)
    ELSE IF <<method, path>> = <<"POST", "/settings">> THEN PostSettings(t, body)
    ELSE IF <<method, path>> = <<"GET", "/stats">> THEN GetStats(t, time)
    ELSE IF <<method, path>> = <<"POST", "/presence">> THEN Presence(t, body, time)
    ELSE NotFound(t)

-----------------------------------------------------------------------------
(* The client (App, first variant) and the requests of other clients *)

Clients == {"c1", "c2"}     \* the browsers that have the page open
Handlers == {"h1", "h2"}    \* the POST /presence handlers that can be in progress

\* presenceInitialized and the time the interval fires next; chatHasVisited
\* is the entry of the browser's localStorage, which outlives the page; the
\* rest is history: an updatePresence request was sent since the page
\* loaded, the first one carried isNewVisit = true, a later one did, the
\* initial effect ran more than once
ClosedPage == [open |-> FALSE, presenceInitialized |-> FALSE, nextBeat |-> 0,
               chatHasVisited |-> FALSE,
               sent |-> FALSE, firstNew |-> FALSE, laterNew |-> FALSE,
               again |-> FALSE]

Guest == <<"g", "u", "e", "s", "t">>     \* the display name of a guest
Ann == <<"a", "n", "n">>
Bob == <<"b", "o", "b">>

SetBg == <<"s", "e", "t", "b", "g">>
SetTheme == <<"s", "e", "t", "t", "h", "e", "m", "e">>

\* what is typed into the message input and into the name input
InputTexts == { <<" ", "a">> }
NameInputs == { Ann, <<>> }

\* the state of each part when the page has just been constructed
ChatIdle ==
    /\ fetches = 0
    /\ messages = <<>>
    /\ inputText = <<>>
    /\ replyingTo = NoMsg
    /\ editingMessage = NoMsg
    /\ displayName = Guest
    /\ isLoggedInUser = FALSE

SettingsIdle == settings = [c \in Clients |-> DefaultSettings]

NoRequest == [path |-> "none"]
Idle == [pc |-> "idle"]

PresenceIdle ==
    /\ page = [c \in Clients |-> ClosedPage]
    /\ served = NoRequest
    /\ handlers = [h \in Handlers |-> Idle]
    /\ started = 0
    /\ completedNew = 0
    /\ everOverlap = FALSE

NoView == [kind |-> "none"]

RenderIdle == view = NoView

\* the fetchMessages calls whose GET has been served and not yet delivered
Requests == {"r1", "r2"}

FetchIdle ==
    /\ responses = [r \in Requests |-> Idle]
    /\ lastRead = NoMsg

\* useState<UserColors>: the colours of a logged-in user
userColors == [nameColor |-> "#ebef00", messageBackground |-> "#003a21"]

\* the second client variant: useState usernameColor, here a colour the
\* user picked (setUsernameColor), not the default
usernameColor == "#FF0000"

\* Date.now().toString()
NowString == ToString(now)

CanFetch == fetches < MaxInFlight

\* fetchMessages, up to the await: one more GET /messages is in flight
FetchMessages == fetches + 1

Find(list, id) == { i \in DOMAIN list : list[i].id = id }

Tick ==
    /\ now < MaxTime
    /\ now' = now + 1
    /\ UNCHANGED <<kv, resp, fetches, messages, inputText, replyingTo,
                   editingMessage, displayName, isLoggedInUser, offChat>>

\* handleLogin
HandleLogin(username) ==
    /\ IF Trim(username) # <<>>
       THEN displayName' = Trim(username) /\ isLoggedInUser' = TRUE
       ELSE displayName' = Guest /\ isLoggedInUser' = FALSE
    /\ UNCHANGED <<kv, now, resp, fetches, messages, inputText, replyingTo,
                   editingMessage, offChat>>

\* onChange of the message input
TypeText(text) ==
    /\ inputText # text
    /\ inputText' = text
    /\ UNCHANGED <<kv, now, resp, fetches, messages, replyingTo,
                   editingMessage, displayName, isLoggedInUser, offChat>>

\* the body sendMessage posts
SendBody(text) ==
    [id |-> NowString, username |-> displayName, text |-> text,
     timestamp |-> now,
     replyTo |-> IF replyingTo = NoMsg THEN Null ELSE replyingTo.id,
     nameColor |-> IF isLoggedInUser THEN userColors.nameColor ELSE Null,
     messageBackground |->
         IF isLoggedInUser THEN userColors.messageBackground ELSE Null]

\* sendMessage (the send button while no message is being edited)
SendMessage ==
    LET text == Trim(inputText)
        out == Serve(kv, "POST", "/messages", SendBody(text), now)
    IN  /\ editingMessage = NoMsg
        /\ text # <<>>
        /\ text \notin {SetBg, SetTheme}
        /\ CanFetch
        /\ kv' = out.kv
        /\ resp' = out.resp
        /\ inputText' = <<>>
        /\ replyingTo' = NoMsg
        /\ fetches' = FetchMessages
        /\ UNCHANGED <<now, messages, editingMessage, displayName,
                       isLoggedInUser, offChat>>

\* sendMessage of a client of the second variant, named Bob
SendMessage2(text, replyTo) ==
    LET body == [id |-> NowString, username |-> Bob, text |-> Trim(text),
                 timestamp |-> now, replyTo |-> replyTo,
                 usernameColor |-> usernameColor]
        out == Serve(kv, "POST", "/messages", body, now)
    IN  /\ Trim(text) # <<>>
        /\ kv' = out.kv
        /\ resp' = out.resp
        /\ UNCHANGED <<now, fetches, messages, inputText, replyingTo,
                       editingMessage, displayName, isLoggedInUser, offChat>>

\* the polling interval: fetchMessages
PollMessages ==
    /\ CanFetch
    /\ fetches' = FetchMessages
    /\ UNCHANGED <<kv, now, resp, messages, inputText, replyingTo,
                   editingMessage, displayName, isLoggedInUser, offChat>>

\* fetchMessages, from the await on: the GET is served from the table and
\* setMessages(data.messages) replaces the list
FetchArrive ==
    /\ fetches > 0
    /\ fetches' = fetches - 1
    /\ messages' \in GetMessages(kv)
    /\ resp' = [status |-> 200, success |-> TRUE]
    /\ UNCHANGED <<kv, now, inputText, replyingTo, editingMessage,
                   displayName, isLoggedInUser, offChat>>

\* handleReply on the message selected by a long press
HandleReply(id) ==
    /\ Find(messages, id) # {}
    /\ replyingTo' = messages[Min(Find(messages, id))]
    /\ UNCHANGED <<kv, now, resp, fetches, messages, inputText,
                   editingMessage, displayName, isLoggedInUser, offChat>>

\* confirmDelete with the ids ticked in delete mode and the prompted password
ConfirmDelete(ids, password) ==
    LET out == Serve(kv, "POST", "/messages/delete",
                     [ids |-> ids, password |-> password], now)
    IN  /\ password # ""
        /\ CanFetch
        /\ kv' = out.kv
        /\ resp' = out.resp
        /\ fetches' = IF out.resp.success THEN FetchMessages ELSE fetches
        /\ UNCHANGED <<now, messages, inputText, replyingTo, editingMessage,
                       displayName, isLoggedInUser, offChat>>

\* handleEdit on the message selected by a long press
HandleEdit(id) ==
    /\ Find(messages, id) # {}
    /\ LET msg == messages[Min(Find(messages, id))]
       IN  IF msg.username = displayName /\ isLoggedInUser /\ displayName # Guest
           THEN editingMessage' = msg /\ inputText' = msg.text
           ELSE UNCHANGED <<editingMessage, inputText>>
    /\ UNCHANGED <<kv, now, resp, fetches, messages, replyingTo, displayName,
                   isLoggedInUser, offChat>>

\* saveEditedMessage (the send button while a message is being edited): the
\* request is PUT /messages; fetch resolves whatever the status, so the
\* catch, and its fetchMessages, runs only when the network fails
SaveEditedMessage ==
    LET messageId == editingMessage.id
        newText == Trim(inputText)
        out == Serve(kv, "PUT", "/messages",
                     [id |-> messageId, text |-> newText], now)
    IN  /\ editingMessage # NoMsg
        /\ newText # <<>>
        /\ messages' = [i \in DOMAIN messages |->
                          IF messages[i].id = messageId
                          THEN Spread(messages[i],
                                      [text |-> newText, edited |-> TRUE])
                          ELSE messages[i]]
        /\ editingMessage' = NoMsg
        /\ inputText' = <<>>
        /\ kv' = out.kv
        /\ resp' = out.resp
        /\ UNCHANGED <<now, fetches, replyingTo, displayName, isLoggedInUser, offChat>>

\* a POST /messages/edit request (no client of the repository sends one)
PostEdit(body) ==
    LET out == Serve(kv, "POST", "/messages/edit", body, now)
    IN  /\ kv' = out.kv
        /\ resp' = out.resp
        /\ UNCHANGED <<now, fetches, messages, inputText, replyingTo,
                       editingMessage, displayName, isLoggedInUser, offChat>>

\* renderReplyPreview: null when the list has no message of that id
RenderReplyPreview(list, replyToId) ==
    IF Find(list, replyToId) = {} THEN [kind |-> "null"]
    ELSE LET replyMsg == list[Min(Find(list, replyToId))]
             preview == replyMsg.text
             media == IF replyMsg.fileUrl # Null /\ replyMsg.fileType # Null
                      THEN replyMsg.fileType ELSE "none"
         IN  [kind |-> media, username |-> replyMsg.username,
              preview |-> preview]

\* the message bubble: msg.replyTo && renderReplyPreview(msg.replyTo)
BubbleReply(list, msg) ==
    IF msg.replyTo = Null \/ msg.replyTo = "" THEN [kind |-> "null"]
    ELSE RenderReplyPreview(list, msg.replyTo)

-----------------------------------------------------------------------------
(* The chat specification *)

StoredSettings == [backgroundImage |-> NullText, panelColor |-> "#000000",
                   iconColor |-> "#ffffff", panelOpacity |-> 50]

StoredStats == [views |-> 1, onlineUsers |-> <<>>]

\* the table before the first message: settings and stats have been stored
InitTable ==
    KvSet(KvSet(EmptyTable, SettingsKey, StoredSettings), StatsKey, StoredStats)

\* the ids a request can name: the ids the clock can give
MsgIds == { ToString(n) : n \in 0..MaxTime }

ClientIds == { messages[i].id : i \in DOMAIN messages }

ChatInit ==
    /\ kv = InitTable
    /\ now = 0
    /\ resp = [status |-> 0]
    /\ fetches = 0
    /\ messages = <<>>
    /\ inputText = <<>>
    /\ replyingTo = NoMsg
    /\ editingMessage = NoMsg
    /\ displayName = Ann
    /\ isLoggedInUser = TRUE
    /\ SettingsIdle
    /\ PresenceIdle
    /\ RenderIdle
    /\ FetchIdle

ChatNext ==
    \/ Tick
    \/ \E text \in InputTexts : TypeText(text)
    \/ SendMessage
    \/ \E text \in InputTexts : SendMessage2(text, Null)
    \/ PollMessages
    \/ FetchArrive
    \/ \E id \in ClientIds : HandleReply(id)
    \/ \E ids \in SUBSET ClientIds, password \in {Password, "qwerty"} :
           ConfirmDelete(ids, password)

Spec == ChatInit /\ [][ChatNext]_vars

-----------------------------------------------------------------------------
(* The edit specification: the client edits messages that are stored *)

\* what is typed into the input while editing
EditTexts == { <<"b", " ">>, <<" ">> }

\* the bodies of the POST /messages/edit requests tried
EditBodies ==
    { [id |-> id, newText |-> text, username |-> username] :
        id \in {"0", "1", "7"}, text \in {<<"b", " ">>, NumberText},
        username \in {Ann, Bob, <<>>} }
    \cup { [newText |-> <<"b", " ">>, username |-> Ann],
           [id |-> "0", username |-> Ann], [id |-> "0", newText |-> <<"b", " ">>] }

\* the table when editing starts: Ann (logged in, first variant) posted
\* message 0 and Bob posted message 1 in reply to it
EditInitTable ==
    LET first == PostMessages(InitTable,
                     [id |-> "0", username |-> Ann, text |-> <<"a">>,
                      timestamp |-> 0, replyTo |-> Null,
                      nameColor |-> userColors.nameColor,
                      messageBackground |-> userColors.messageBackground]).kv
    IN  PostMessages(first,
                     [id |-> "1", username |-> Bob, text |-> <<"a">>,
                      timestamp |-> 1, replyTo |-> "0",
                      usernameColor |-> usernameColor]).kv

EditInit ==
    /\ kv = EditInitTable
    /\ now = 1
    /\ resp = [status |-> 200, success |-> TRUE]
    /\ fetches = 0
    /\ messages \in GetMessages(EditInitTable)
    /\ inputText = <<>>
    /\ replyingTo = NoMsg
    /\ editingMessage = NoMsg
    /\ displayName = Guest
    /\ isLoggedInUser = FALSE
    /\ SettingsIdle
    /\ PresenceIdle
    /\ RenderIdle
    /\ FetchIdle

EditTick ==
    /\ now < MaxTime + 1
    /\ now' = now + 1
    /\ UNCHANGED <<kv, resp, fetches, messages, inputText, replyingTo,
                   editingMessage, displayName, isLoggedInUser, offChat>>

EditNext ==
    \/ EditTick
    \/ \E username \in NameInputs : HandleLogin(username)
    \/ \E text \in EditTexts : TypeText(text)
    \/ \E id \in ClientIds : HandleEdit(id)
    \/ SaveEditedMessage
    \/ \E body \in EditBodies : PostEdit(body)
    \/ PollMessages
    \/ FetchArrive

EditSpec == EditInit /\ [][EditNext]_vars

-----------------------------------------------------------------------------
(* The settings specification: clients and other requests write settings *)

\* what the theme dialog holds (themePanel, themeIcon, themeOpacity)
Themes ==
    { [panelColor |-> DefaultSettings.panelColor,
       iconColor |-> DefaultSettings.iconColor,
       panelOpacity |-> DefaultSettings.panelOpacity],
      [panelColor |-> "#202020", iconColor |-> "#ff0000", panelOpacity |-> 50] }

\* what is typed into the background URL input
BgUrls == { <<"u">>, <<" ">> }

\* the bodies of the POST /settings requests other programs send: a whole
\* document, a document with one field, and values that are no document
SettingsBodies ==
    { StoredSettings, [panelColor |-> "#303030"],
      JsonFalse, JsonZero, JsonEmptyString, JsonNull }

\* fetchSettings
FetchSettings(c) ==
    LET out == Serve(kv, "GET", "/settings", JsonNull, now)
    IN  /\ resp' = out.resp
        /\ settings' = [settings EXCEPT ![c] = out.resp.settings]
        /\ UNCHANGED <<kv, now, offSettings>>

\* applyTheme: the POST is awaited, its status is not looked at
ApplyTheme(c, theme) ==
    LET newSettings == Spread(settings[c], theme)
        out == Serve(kv, "POST", "/settings", newSettings, now)
    IN  /\ kv' = out.kv
        /\ resp' = out.resp
        /\ settings' = [settings EXCEPT ![c] = newSettings]
        /\ UNCHANGED <<now, offSettings>>

\* setBgFromUrl
SetBgFromUrl(c, bgUrl) ==
    LET newSettings == Spread(settings[c], [backgroundImage |-> Trim(bgUrl)])
        out == Serve(kv, "POST", "/settings", newSettings, now)
    IN  /\ Trim(bgUrl) # <<>>
        /\ kv' = out.kv
        /\ resp' = out.resp
        /\ settings' = [settings EXCEPT ![c] = newSettings]
        /\ UNCHANGED <<now, offSettings>>

\* a POST /settings request of another program
PostSettingsRequest(body) ==
    LET out == Serve(kv, "POST", "/settings", body, now)
    IN  /\ kv' = out.kv
        /\ resp' = out.resp
        /\ UNCHANGED <<now, settings, offSettings>>

SettingsInit ==
    /\ kv = EmptyTable
    /\ now = 0
    /\ resp = [status |-> 0]
    /\ ChatIdle
    /\ SettingsIdle
    /\ PresenceIdle
    /\ RenderIdle
    /\ FetchIdle

SettingsNext ==
    \/ \E c \in Clients : FetchSettings(c)
    \/ \E c \in Clients, theme \in Themes : ApplyTheme(c, theme)
    \/ \E c \in Clients, bgUrl \in BgUrls : SetBgFromUrl(c, bgUrl)
    \/ \E body \in SettingsBodies : PostSettingsRequest(body)

SettingsSpec == SettingsInit /\ [][SettingsNext]_vars

-----------------------------------------------------------------------------
(* Claims checked under Spec *)

\* C1: POST /messages/delete with a password other than the hardcoded one
\* answers 403 with success = false and leaves the whole table (messages,
\* settings, stats) as it was, whatever ids were listed.
C1_WrongPasswordDeletesNothing ==
    [][\A ids \in SUBSET ClientIds, password \in {"qwerty"} :
          ConfirmDelete(ids, password) =>
              /\ kv' = kv
              /\ resp'.status = 403 /\ resp'.success = FALSE]_vars

\* a delete with a wrong password was answered while messages, settings and
\* stats were stored and the client listed messages to delete
C1_Witness ==
    /\ resp.status = 403
    /\ MsgKeys(kv) # {}
    /\ ClientIds # {}
    /\ KvHas(kv, SettingsKey) /\ KvHas(kv, StatsKey)

\* C3 (as claimed): every message GET /messages returned to the client has
\* the colour fields it was posted with.  In this specification the messages
\* named Ann are the ones the logged-in client posted with
\* userColors, and the messages named Bob are the ones the client of the
\* second variant posted with usernameColor.
C3_ColoursReturned ==
    \A i \in DOMAIN messages :
        /\ messages[i].username = Ann =>
               /\ "nameColor" \in DOMAIN messages[i]
               /\ messages[i].nameColor = userColors.nameColor
               /\ "messageBackground" \in DOMAIN messages[i]
               /\ messages[i].messageBackground = userColors.messageBackground
        /\ messages[i].username = Bob =>
               /\ "usernameColor" \in DOMAIN messages[i]
               /\ messages[i].usernameColor = usernameColor

\* C10: a delete leaves every message it does not name as it was, replyTo
\* included, also when replyTo names a deleted message; and the client
\* renders a message whose replyTo names no message of its list with no
\* reply preview (renderReplyPreview gives null).
C10_Dangling(list, msg) ==
    msg.replyTo # Null /\ Find(list, msg.replyTo) = {}

C10_NoReferentialIntegrity ==
    /\ [][\A ids \in SUBSET ClientIds :
            ConfirmDelete(ids, Password) =>
                \A k \in MsgKeys(kv) :
                    k \notin {MsgKey(id) : id \in ids} =>
                        KvHas(kv', k) /\ KvGet(kv', k) = KvGet(kv, k)]_vars
    /\ [](\A i \in DOMAIN messages :
            C10_Dangling(messages, messages[i]) =>
                BubbleReply(messages, messages[i]) = [kind |-> "null"])

\* a reply whose target was deleted is stored, and the client lists it
C10_Witness ==
    /\ \E k \in MsgKeys(kv) :
          /\ KvGet(kv, k).replyTo # Null
          /\ ~KvHas(kv, MsgKey(KvGet(kv, k).replyTo))
    /\ \E i \in DOMAIN messages : C10_Dangling(messages, messages[i])
    /\ resp = [status |-> 200, success |-> TRUE]

\* C11: POST /messages/delete with the right password removes exactly the
\* documents keyed msg_<id> of the listed ids: applied to the table of any
\* state, the keys left are the other keys, each with the value it had
\* (settings and stats included), listed ids that name no stored message
\* change nothing, and GET /messages then answers with the messages that
\* were not listed, unchanged.
C11_Ids == MsgIds \cup {"7"}

C11_RemovesExactlyTheListed ==
    \A ids \in SUBSET C11_Ids :
        LET out == Serve(kv, "POST", "/messages/delete",
                         [ids |-> ids, password |-> Password], now)
        IN  /\ DOMAIN out.kv = DOMAIN kv \ {MsgKey(id) : id \in ids}
            /\ \A k \in DOMAIN out.kv : out.kv[k] = kv[k]
            /\ KvHas(out.kv, SettingsKey) /\ KvHas(out.kv, StatsKey)
            /\ GetMessages(out.kv) =
                   SortedByTimestamp({ m \in KvGetByPrefixMsg(kv) :
                                         m.id \notin ids })
            /\ out.resp = [status |-> 200, success |-> TRUE]

\* a delete was answered with success (nothing else removes a key): a
\* message the first client still lists is stored no longer, another one
\* it lists is still stored, and so are the settings and the stats
C11_Witness ==
    /\ resp = [status |-> 200, success |-> TRUE]
    /\ \E id \in ClientIds : ~KvHas(kv, MsgKey(id))
    /\ \E id \in ClientIds : KvHas(kv, MsgKey(id))
    /\ KvHas(kv, SettingsKey) /\ KvHas(kv, StatsKey)

\* C13: every list GET /messages can answer with holds each stored msg_
\* document exactly once and nothing else (neither the settings nor the
\* stats document), in an order of non-decreasing timestamp.
C13_EveryMessageOnceInOrder ==
    /\ GetMessages(kv) # {}
    /\ \A list \in GetMessages(kv) :
           /\ Len(list) = Cardinality(MsgKeys(kv))
           /\ \A k \in MsgKeys(kv) :
                  Cardinality({ i \in DOMAIN list : list[i] = kv[k] }) = 1
           /\ \A i \in DOMAIN list :
                  /\ \E k \in MsgKeys(kv) : list[i] = kv[k]
                  /\ list[i] \notin {kv[SettingsKey], kv[StatsKey]}
           /\ \A i \in 1..(Len(list) - 1) :
                  list[i].timestamp <= list[i + 1].timestamp

\* the client holds the answer to a GET /messages that listed two stored
\* messages, of two authors, the older one first
C13_Witness ==
    /\ Len(messages) = 2
    /\ messages \in GetMessages(kv)
    /\ messages[1].username # messages[2].username
    /\ messages[1].timestamp < messages[2].timestamp

\* C17 (as claimed): a successful POST /messages of one client leaves every
\* stored message of another client as it was, also when both clients send
\* within the same millisecond: no posted message is replaced by another.
C17_NoMessageReplaced ==
    [][/\ (\E text \in InputTexts : SendMessage2(text, Null)) =>
              \A k \in MsgKeys(kv) :
                  kv[k].username # Bob => KvHas(kv', k) /\ kv'[k] = kv[k]
       /\ SendMessage =>
              \A k \in MsgKeys(kv) :
                  kv[k].username = Bob => KvHas(kv', k) /\ kv'[k] = kv[k]]_vars

-----------------------------------------------------------------------------
(* Claims checked under EditSpec *)

C4_Marked(msg) == "edited" \in DOMAIN msg /\ msg.edited = TRUE

\* C4 (as claimed): when the author saves an edit, the stored message has the
\* new text and the edit marker the client displays, and after the next poll
\* has replaced the list every message shown as edited still has its edited
\* text and its marker.
C4_EditPersists ==
    [][/\ SaveEditedMessage =>
              LET key == MsgKey(editingMessage.id) IN
              KvHas(kv', key) =>
                  /\ KvGet(kv', key).text = Trim(inputText)
                  /\ C4_Marked(KvGet(kv', key))
       /\ FetchArrive =>
              \A i \in DOMAIN messages, j \in DOMAIN messages' :
                  C4_Marked(messages[i]) /\ messages'[j].id = messages[i].id =>
                      /\ messages'[j].text = messages[i].text
                      /\ C4_Marked(messages'[j])]_vars

\* C12: POST /messages/edit changes a stored message only when the username
\* of the request is the username of the stored message.  A request with no
\* id, no username or a newText that is no string is answered 400, one that
\* names no stored message 404, one with another username 403, and each of
\* these leaves the table as it was; a successful edit is answered 200 and
\* changes, in the message it names only, the text (to the trimmed newText)
\* and editedAt (to the time of handling), keeping every other field.
\* Stated of the handler applied to the table of any state.
C12_Malformed(body) ==
    \/ "id" \notin DOMAIN body
    \/ "username" \notin DOMAIN body \/ body.username = <<>>
    \/ "newText" \notin DOMAIN body \/ body.newText = NumberText

C12_Outcome(body, out) ==
    IF C12_Malformed(body)
    THEN out.kv = kv /\ out.resp.status = 400 /\ out.resp.success = FALSE
    ELSE IF MsgKey(body.id) \notin DOMAIN kv
    THEN out.kv = kv /\ out.resp.status = 404 /\ out.resp.success = FALSE
    ELSE IF kv[MsgKey(body.id)].username # body.username
    THEN out.kv = kv /\ out.resp.status = 403 /\ out.resp.success = FALSE
    ELSE LET before == kv[MsgKey(body.id)]
             after == out.kv[MsgKey(body.id)]
         IN  /\ out.resp.status = 200 /\ out.resp.success = TRUE
             /\ DOMAIN out.kv = DOMAIN kv
             /\ \A k \in DOMAIN kv \ {MsgKey(body.id)} : out.kv[k] = kv[k]
             /\ DOMAIN after = DOMAIN before \cup {"editedAt"}
             /\ \A f \in DOMAIN before \ {"text", "editedAt"} :
                    after[f] = before[f]
             /\ after.text = Trim(body.newText)
             /\ after.editedAt = now

C12_OnlyTheAuthorEdits ==
    \A body \in EditBodies :
        C12_Outcome(body, Serve(kv, "POST", "/messages/edit", body, now))

\* an edit by the author has been stored (the trimmed text, editedAt, the
\* author, the colour and the replyTo it had), the message of the other
\* author is as it was posted, and a later request was refused with 403
C12_Witness ==
    /\ resp.status = 403
    /\ KvHas(kv, MsgKey("1"))
    /\ "editedAt" \in DOMAIN kv[MsgKey("1")]
    /\ kv[MsgKey("1")].text = <<"b">>
    /\ kv[MsgKey("1")].username = Bob
    /\ kv[MsgKey("1")].replyTo = "0"
    /\ kv[MsgKey("0")] = EditInitTable[MsgKey("0")]

-----------------------------------------------------------------------------
(* Claims checked under SettingsSpec *)

\* the step is a POST /settings with this body that was answered success
C5_Posted(body) ==
    /\ \/ PostSettingsRequest(body)
       \/ \E c \in Clients, theme \in Themes :
              ApplyTheme(c, theme) /\ body = Spread(settings[c], theme)
       \/ \E c \in Clients, bgUrl \in BgUrls :
              /\ SetBgFromUrl(c, bgUrl)
              /\ body = Spread(settings[c], [backgroundImage |-> Trim(bgUrl)])
    /\ resp'.success

C5_Bodies ==
    SettingsBodies
    \cup { Spread(settings[c], theme) : c \in Clients, theme \in Themes }
    \cup { Spread(settings[c], [backgroundImage |-> Trim(u)]) :
             c \in Clients, u \in BgUrls }

C5_DefaultWhileNothingStored ==
    ~KvHas(kv, SettingsKey) => GetSettings(kv).resp.settings = DefaultSettings

\* C5 (as claimed): GET /settings answers the default document while nothing
\* is stored, and after a successful POST /settings it answers exactly the
\* body of that POST.
C5_GetReturnsLastBody ==
    /\ [][\A body \in C5_Bodies :
            C5_Posted(body) => GetSettings(kv').resp.settings = body]_vars
    /\ []C5_DefaultWhileNothingStored

\* C5 (amended): GET /settings answers the default document while nothing is
\* stored; after a successful POST /settings it answers exactly the body of
\* that POST when the body is truthy (every JSON object is), with no field
\* of the document stored before merged in, and the default document when the
\* body is false, 0 or "".
C5_GetReturnsLastTruthyBody ==
    /\ [][\A body \in C5_Bodies :
            C5_Posted(body) =>
                GetSettings(kv').resp.settings =
                    IF Falsy(body) THEN DefaultSettings ELSE body]_vars
    /\ []C5_DefaultWhileNothingStored

\* a document with the single field panelColor replaced a whole document:
\* GET /settings answers just that field
C5_Witness ==
    /\ KvHas(kv, SettingsKey)
    /\ resp.status = 200 /\ "settings" \in DOMAIN resp
    /\ resp.settings = [panelColor |-> "#303030"]
    /\ \E c \in Clients : settings[c] # DefaultSettings

\* the settings document as the server answers it
C21_Doc(t) == GetSettings(t).resp.settings

C21_ThemeFields == {"panelColor", "iconColor", "panelOpacity"}

\* the field f is in both documents with one value, or in neither
C21_Same(d, e, f) ==
    /\ (f \in DOMAIN d) = (f \in DOMAIN e)
    /\ f \in DOMAIN d => d[f] = e[f]

\* the document after the step is the client's copy with the changes
C21_CopyWith(c, changes) ==
    /\ DOMAIN C21_Doc(kv') = DOMAIN settings[c] \cup DOMAIN changes
    /\ \A f \in DOMAIN changes : C21_Doc(kv')[f] = changes[f]
    /\ \A f \in DOMAIN settings[c] \ DOMAIN changes :
           C21_Doc(kv')[f] = settings[c][f]
    /\ settings'[c] = C21_Doc(kv')

\* C21 (as claimed): applyTheme leaves the backgroundImage of the settings
\* document on the server as it was, and setBgFromUrl leaves panelColor,
\* iconColor and panelOpacity as they were, also when another client has
\* changed the settings since this client loaded them.
C21_OnlyOwnFieldsChange ==
    [][/\ \A c \in Clients, theme \in Themes :
              ApplyTheme(c, theme) =>
                  C21_Same(C21_Doc(kv), C21_Doc(kv'), "backgroundImage")
       /\ \A c \in Clients, bgUrl \in BgUrls :
              SetBgFromUrl(c, bgUrl) =>
                  \A f \in C21_ThemeFields :
                      C21_Same(C21_Doc(kv), C21_Doc(kv'), f)]_vars

\* C21 (amended): applyTheme and setBgFromUrl store the client's copy of the
\* settings with the fields they change replaced: the stored document then
\* has the theme (the trimmed URL) of the request and every other field as
\* in the client's copy.  The other fields are left as they were on the
\* server when the client's copy is the document the server holds.
C21_OwnFieldsOverClientCopy ==
    [][/\ \A c \in Clients, theme \in Themes :
              ApplyTheme(c, theme) =>
                  /\ C21_CopyWith(c, theme)
                  /\ settings[c] = C21_Doc(kv) =>
                         C21_Same(C21_Doc(kv), C21_Doc(kv'), "backgroundImage")
       /\ \A c \in Clients, bgUrl \in BgUrls :
              SetBgFromUrl(c, bgUrl) =>
                  /\ C21_CopyWith(c, [backgroundImage |-> Trim(bgUrl)])
                  /\ settings[c] = C21_Doc(kv) =>
                         \A f \in C21_ThemeFields :
                             C21_Same(C21_Doc(kv), C21_Doc(kv'), f)]_vars

\* C21 witness: one client has set the background and the other, with the
\* settings loaded after that, has applied a theme: the stored document has
\* both, and the copy of the first client has the old theme
C21_Witness ==
    /\ KvHas(kv, SettingsKey)
    /\ C21_Doc(kv) = [backgroundImage |-> <<"u">>, panelColor |-> "#202020",
                      iconColor |-> "#ff0000", panelOpacity |-> 50]
    /\ \E c \in Clients : settings[c] = C21_Doc(kv)
    /\ \E c \in Clients :
           settings[c] = [DefaultSettings EXCEPT !.backgroundImage = <<"u">>]

-----------------------------------------------------------------------------
(* Presence: the page's heartbeat and the stats document.  Each request is *)
(* handled at the moment it is sent, one at a time.  The clock moves in    *)
(* steps of half a heartbeat interval, and never past a heartbeat that is  *)
(* due; the fetchMessages call of the interval is PollMessages above.      *)

\* setInterval(..., 10000) of the initial effect, in milliseconds
HeartbeatInterval == 10000

HalfBeat == HeartbeatInterval \div 2

OnlineIds(t) ==
    { StatsOrDefault(t).onlineUsers[i].id : i \in DOMAIN StatsOrDefault(t).onlineUsers }

\* fetch(API_URL/presence, POST) or sendBeacon, and the server's handling
PostPresence(body) ==
    LET r == Serve(kv, "POST", "/presence", body, now)
    IN  /\ kv' = r.kv
        /\ resp' = r.resp
        /\ served' = [path |-> "/presence", body |-> body, at |-> now]

\* a body that says isNewVisit on every request
PresenceBodyAlwaysNew(c) == [userId |-> c, isNewVisit |-> TRUE]

\* the body updatePresence sends: isNewVisitForServer
PresenceBody(c) == [userId |-> c, isNewVisit |-> ~page[c].presenceInitialized]

\* updatePresence: the request, handled at once
UpdatePresence(c) == PostPresence(PresenceBody(c))

\* updatePresence after the response (data.success): localStorage.setItem(
\* 'chatHasVisited', 'true'); and the history of the page, from the body
\* that was sent
AfterPresence(p, body) ==
    [p EXCEPT !.chatHasVisited = TRUE,
              !.sent = TRUE,
              !.firstNew = IF p.sent THEN @ ELSE body.isNewVisit,
              !.laterNew = IF p.sent THEN @ \/ body.isNewVisit ELSE @]

PresenceTick ==
    /\ now + HalfBeat <= MaxBeats * HeartbeatInterval
    /\ \A c \in Clients : page[c].open => now < page[c].nextBeat
    /\ now' = now + HalfBeat
    /\ UNCHANGED <<kv, resp, page, served, handlers, started, completedNew,
                   everOverlap, offPresence>>

\* the initial effect of a page load
PageLoad(c) ==
    /\ ~page[c].open
    /\ StatsOrDefault(kv).views < MaxViews
    /\ UpdatePresence(c)
    /\ page' = [page EXCEPT ![c] =
                   [AfterPresence(@, PresenceBody(c)) EXCEPT !.open = TRUE,
                                            !.presenceInitialized = TRUE,
                                            !.nextBeat = now + HeartbeatInterval]]
    /\ UNCHANGED <<now, handlers, started, completedNew, everOverlap, offPresence>>

\* the interval callback
IntervalFires(c) ==
    /\ page[c].open
    /\ now >= page[c].nextBeat
    /\ UpdatePresence(c)
    /\ page' = [page EXCEPT ![c] =
                   [AfterPresence(@, PresenceBody(c)) EXCEPT
                        !.nextBeat = @ + HeartbeatInterval]]
    /\ UNCHANGED <<now, handlers, started, completedNew, everOverlap, offPresence>>

\* the initial effect runs once more on the mounted page (its cleanup has
\* cleared the interval): presenceInitialized.current is true, no
\* updatePresence, a new interval
InitialEffectAgain(c) ==
    /\ page[c].open
    /\ now + HeartbeatInterval # page[c].nextBeat \/ ~page[c].again
    /\ page' = [page EXCEPT ![c] =
                   IF ~@.presenceInitialized
                   THEN [AfterPresence(@, PresenceBody(c)) EXCEPT
                             !.presenceInitialized = TRUE,
                             !.nextBeat = now + HeartbeatInterval,
                             !.again = TRUE]
                   ELSE [@ EXCEPT !.nextBeat = now + HeartbeatInterval,
                                  !.again = TRUE]]
    /\ IF ~page[c].presenceInitialized
       THEN UpdatePresence(c)
       ELSE UNCHANGED <<kv, resp, served>>
    /\ UNCHANGED <<now, handlers, started, completedNew, everOverlap, offPresence>>

\* onStorage: another tab of the browser set chatViewCounted to 'true'
OnStorage(c) ==
    /\ page[c].open
    /\ UpdatePresence(c)
    /\ page' = [page EXCEPT ![c] = AfterPresence(@, PresenceBody(c))]
    /\ UNCHANGED <<now, handlers, started, completedNew, everOverlap, offPresence>>

\* onVisibilityChange with visibilityState hidden: the page stays open
OnVisibilityChange(c) ==
    /\ page[c].open
    /\ PostPresence([userId |-> c, leave |-> TRUE])
    /\ UNCHANGED <<now, page, handlers, started, completedNew, everOverlap,
                   offPresence>>

\* onUnload on beforeunload: the beacon is sent and the page is gone
OnUnload(c) ==
    /\ page[c].open
    /\ PostPresence([userId |-> c, leave |-> TRUE])
    /\ page' = [page EXCEPT ![c] =
                   [ClosedPage EXCEPT !.chatHasVisited = page[c].chatHasVisited]]
    /\ UNCHANGED <<now, handlers, started, completedNew, everOverlap, offPresence>>

\* a GET /stats request
StatsRequest ==
    /\ resp' = Serve(kv, "GET", "/stats", Null, now).resp
    /\ served' = [path |-> "/stats", at |-> now]
    /\ UNCHANGED <<kv, now, page, handlers, started, completedNew, everOverlap,
                   offPresence>>

PresenceInit ==
    /\ kv = EmptyTable
    /\ now = 0
    /\ resp = [status |-> 0]
    /\ ChatIdle
    /\ SettingsIdle
    /\ PresenceIdle
    /\ RenderIdle
    /\ FetchIdle

PresenceNext ==
    \/ PresenceTick
    \/ \E c \in Clients : PageLoad(c)
    \/ \E c \in Clients : IntervalFires(c)
    \/ \E c \in Clients : InitialEffectAgain(c)
    \/ \E c \in Clients : OnStorage(c)
    \/ \E c \in Clients : OnVisibilityChange(c)
    \/ \E c \in Clients : OnUnload(c)
    \/ StatsRequest

PresenceSpec == PresenceInit /\ [][PresenceNext]_vars

\* C2: after a POST /presence request handled at server time now has
\* completed, every record of the stored onlineUsers satisfies
\* now - lastSeen < 10000, and the onlineCount returned is the number of
\* stored records.
C2_StoredRecordsAreFresh ==
    served.path = "/presence" =>
        /\ \A i \in DOMAIN KvGet(kv, StatsKey).onlineUsers :
               served.at - KvGet(kv, StatsKey).onlineUsers[i].lastSeen < 10000
        /\ resp.onlineCount = Len(KvGet(kv, StatsKey).onlineUsers)

\* C2 witness: a presence request has been handled that dropped the record
\* of a client which had registered 10000 ms before and kept the one of
\* the sender
C2_Witness ==
    /\ served.path = "/presence"
    /\ served.at >= PresenceWindow
    /\ resp.onlineCount = 1
    /\ OnlineIds(kv) = {served.body.userId}
    /\ \E c \in Clients \ {served.body.userId} : page[c].open

\* C8: while a client keeps the page open and its presence requests, one
\* every 10000 ms, succeed, every presence response computed for another
\* client counts it as online: its record is not pruned between two of its
\* own heartbeats.
C8_CountedBetweenHeartbeats ==
    served.path = "/presence" =>
        \A c \in Clients \ {served.body.userId} :
            (page[c].open /\ page[c].presenceInitialized /\ ~page[c].again
               /\ now <= page[c].nextBeat)
                => c \in OnlineIds(kv)

\* C14: within one page load exactly one updatePresence request carries
\* isNewVisit = true and it is the first one sent; the requests of the
\* interval and of the storage-event handler carry false, also when the
\* initial effect has run more than once.
C14_OneNewVisitPerLoad ==
    \A c \in Clients :
        page[c].open => page[c].sent /\ page[c].firstNew /\ ~page[c].laterNew

\* a page whose initial effect ran more than once has sent its first
\* request and then a later one, which the server handled last
C14_Witness ==
    \E c \in Clients :
        /\ page[c].open /\ page[c].again
        /\ page[c].firstNew /\ ~page[c].laterNew
        /\ served.path = "/presence"
        /\ served.body = [userId |-> c, isNewVisit |-> FALSE]
        /\ served.at > 0

\* C15 (as claimed): a page load in a browser whose localStorage already
\* holds chatHasVisited = 'true' (a refresh, or a later visit) leaves the
\* stored view count as it was.
C15_RefreshIsNoNewVisit ==
    [][\A c \in Clients :
          (page[c].chatHasVisited /\ PageLoad(c)) =>
              StatsOrDefault(kv').views = StatsOrDefault(kv).views]_vars

\* C16 (as claimed): once the server has handled a leave beacon, the sender
\* has no record in the stored onlineUsers and the response does not count
\* it.
C16_LeaveRemovesTheRecord ==
    (served.path = "/presence" /\ "leave" \in DOMAIN served.body) =>
        /\ served.body.userId \notin OnlineIds(kv)
        /\ resp.onlineCount =
               Cardinality(OnlineIds(kv) \ {served.body.userId})

-----------------------------------------------------------------------------
(* Presence handlers that interleave: a handler reads chat_stats (kv.get), *)
(* computes the document at that moment, and writes it (kv.set) later.     *)

PresenceBodies ==
    { [userId |-> c, isNewVisit |-> b] : c \in Clients, b \in BOOLEAN }
        \cup { [userId |-> c, leave |-> TRUE] : c \in Clients }

InProgress == { h \in Handlers : handlers[h] # Idle }

\* POST /presence up to the await of kv.set
PresenceGet(h, body) ==
    /\ handlers[h] = Idle
    /\ started < MaxRequests
    /\ handlers' = [handlers EXCEPT ![h] =
                       [pc |-> "set", body |-> body, at |-> now,
                        stats |-> UpdateStats(StatsOrDefault(kv), body, now)]]
    /\ started' = started + 1
    /\ everOverlap' = (everOverlap \/ InProgress # {})
    /\ UNCHANGED <<kv, now, resp, page, served, completedNew, offPresence>>

\* POST /presence from kv.set to the response
PresenceSet(h) ==
    /\ handlers[h] # Idle
    /\ LET r == StoreStats(kv, handlers[h].stats)
       IN  /\ kv' = r.kv
           /\ resp' = r.resp
    /\ served' = [path |-> "/presence", body |-> handlers[h].body,
                  at |-> handlers[h].at]
    /\ completedNew' = completedNew + (IF IsNewVisit(handlers[h].body) THEN 1 ELSE 0)
    /\ handlers' = [handlers EXCEPT ![h] = Idle]
    /\ UNCHANGED <<now, page, started, everOverlap, offPresence>>

RaceTick ==
    /\ now + HeartbeatInterval <= MaxBeats * HeartbeatInterval
    /\ now' = now + HeartbeatInterval
    /\ UNCHANGED <<kv, resp, page, served, handlers, started, completedNew,
                   everOverlap, offPresence>>

PresenceRaceNext ==
    \/ RaceTick
    \/ \E h \in Handlers, body \in PresenceBodies : PresenceGet(h, body)
    \/ \E h \in Handlers : PresenceSet(h)

PresenceRaceSpec == PresenceInit /\ [][PresenceRaceNext]_vars

\* C9 (as claimed): after any set of presence requests has completed, in
\* any interleaving of their kv.get and kv.set steps, the stored views
\* equals the number of completed requests with isNewVisit = true.
C9_ViewsCountEveryNewVisit ==
    InProgress = {} => StatsOrDefault(kv).views = completedNew

\* C9 (amended): the stored views never exceeds the number of completed
\* requests with isNewVisit = true, and equals it as long as no two
\* handlers have been in progress at the same time.
C9_ViewsExactWithoutOverlap ==
    /\ StatsOrDefault(kv).views <= completedNew
    /\ ~everOverlap => StatsOrDefault(kv).views = completedNew

\* C9 witness: two new visits and a heartbeat handled one after the other
C9_Witness ==
    /\ InProgress = {}
    /\ ~everOverlap
    /\ started = 3
    /\ completedNew = 2
    /\ StatsOrDefault(kv).views = 2

\* C18 (as claimed): in every execution, also when POST /presence handlers
\* interleave between kv.get and kv.set, no write stores a views smaller
\* than the views stored before it.
C18_ViewsNeverDecrease ==
    [][StatsOrDefault(kv').views >= StatsOrDefault(kv).views]_vars

\* C18 (amended): as long as no two handlers have been in progress at the
\* same time, no write stores a views smaller than the views stored before
\* it.
C18_ViewsNeverDecreaseWithoutOverlap ==
    [][~everOverlap' =>
           StatsOrDefault(kv').views >= StatsOrDefault(kv).views]_vars

\* C18 witness: a new visit and then a heartbeat were handled one after the
\* other, and the heartbeat wrote the views the new visit had stored
C18_Witness ==
    /\ InProgress = {}
    /\ ~everOverlap
    /\ started = 2
    /\ completedNew = 1
    /\ served.path = "/presence"
    /\ ~IsNewVisit(served.body)
    /\ StatsOrDefault(kv).views = 1

\* C19: the document a POST /presence request writes holds a record for the
\* userId of the request with lastSeen equal to the time it was handled
\* at, and the onlineCount it answers with is at least 1.
C19_CallerIsCounted ==
    served.path = "/presence" =>
        /\ \E i \in DOMAIN KvGet(kv, StatsKey).onlineUsers :
               KvGet(kv, StatsKey).onlineUsers[i] =
                   [id |-> served.body.userId, lastSeen |-> served.at]
        /\ resp.status = 200 /\ resp.success = TRUE
        /\ resp.onlineCount >= 1

\* C19 witness: a request of a user whose record was stored 10000 ms before
\* has been handled: its record, with the new lastSeen, is the only one
C19_Witness ==
    /\ served.path = "/presence"
    /\ served.at = PresenceWindow
    /\ started = 3
    /\ resp.onlineCount = 1
    /\ KvGet(kv, StatsKey).onlineUsers =
           <<[id |-> served.body.userId, lastSeen |-> served.at]>>

\* C20: the stored onlineUsers holds at most one record per user id in every
\* state, whatever the order of the kv.get and kv.set steps of the POST
\* /presence handlers, so the onlineCount answered is the number of user
\* ids stored.
C20_OneRecordPerUser ==
    LET users == StatsOrDefault(kv).onlineUsers
    IN  /\ \A i, j \in DOMAIN users : users[i].id = users[j].id => i = j
        /\ served.path = "/presence" =>
               resp.onlineCount = Cardinality(OnlineIds(kv))

\* C20 witness: three requests of the same user id (heartbeats or leave
\* beacons) have been handled, two of them at the same time, and one record
\* is stored
C20_Witness ==
    /\ InProgress = {}
    /\ everOverlap
    /\ started = 3
    /\ Len(StatsOrDefault(kv).onlineUsers) = 1
    /\ completedNew = 0
    /\ "leave" \in DOMAIN served.body

-----------------------------------------------------------------------------
(* Rendering a message: renderMessageContent.  The regular expressions are *)
(* computed on the characters of the text.                                 *)

\* the extensions of the direct video rule
VideoExtensions ==
    { <<"m", "p", "4">>, <<"w", "e", "b", "m">>, <<"o", "g", "g">>,
      <<"o", "g", "v">>, <<"m", "o", "v">>, <<"a", "v", "i">>,
      <<"m", "k", "v">>, <<"f", "l", "v">>, <<"w", "m", "v">>,
      <<"m", "4", "v">>, <<"3", "g", "p">>, <<"m", "p", "g">>,
      <<"m", "p", "e", "g">>, <<"t", "s">>, <<"m", "2", "t", "s">>,
      <<"m", "t", "s">>, <<"m", "3", "u", "8">>, <<"m", "x", "f">> }

\* the extensions of the direct audio rule
AudioExtensions ==
    { <<"m", "p", "3">>, <<"w", "a", "v">>, <<"m", "4", "a">>,
      <<"o", "g", "g">>, <<"o", "g", "a">>, <<"a", "a", "c">>,
      <<"f", "l", "a", "c">>, <<"w", "m", "a">>, <<"a", "i", "f", "f">>,
      <<"a", "i", "f">>, <<"a", "i", "f", "c">>, <<"a", "l", "a", "c">>,
      <<"a", "p", "e">>, <<"o", "p", "u", "s">>, <<"a", "m", "r">>,
      <<"m", "i", "d">>, <<"m", "i", "d", "i">>, <<"r", "a">>, <<"r", "m">>,
      <<"w", "v">>, <<"t", "t", "a">>, <<"t", "a", "k">>, <<"m", "k", "a">>,
      <<"d", "t", "s">>, <<"a", "c", "3">>, <<"e", "a", "c", "3">>,
      <<"m", "l", "p">>, <<"p", "c", "m">>, <<"a", "u">>, <<"s", "n", "d">>,
      <<"m", "4", "b">>, <<"m", "4", "p">>, <<"3", "g", "p">>, <<"a", "a">>,
      <<"a", "a", "x">> }

\* the extensions of the direct image rule
ImageExtensions ==
    { <<"j", "p", "g">>, <<"j", "p", "e", "g">>, <<"p", "n", "g">>,
      <<"g", "i", "f">>, <<"w", "e", "b", "p">>, <<"b", "m", "p">>,
      <<"s", "v", "g">>, <<"i", "c", "o">>, <<"t", "i", "f", "f">>,
      <<"t", "i", "f">>, <<"p", "s", "d">>, <<"a", "i">>, <<"e", "p", "s">>,
      <<"r", "a", "w">>, <<"c", "r", "2">>, <<"n", "e", "f">>,
      <<"o", "r", "f">>, <<"s", "r", "2">>, <<"j", "f", "i", "f">>,
      <<"j", "p", "e">>, <<"h", "e", "i", "c">>, <<"h", "e", "i", "f">>,
      <<"a", "v", "i", "f">>, <<"a", "p", "n", "g">> }

\* the extensions of the text and PDF rule
DocumentExtensions ==
    { <<"t", "x", "t">>, <<"p", "d", "f">>, <<"d", "o", "c">>,
      <<"d", "o", "c", "x">> }

\* the literal parts of the regular expressions
HttpScheme == <<"h", "t", "t", "p", ":", "/", "/">>
HttpsScheme == <<"h", "t", "t", "p", "s", ":", "/", "/">>
SpoilerOpen == <<"[", "s", "p", "o", "i", "l", "e", "r", ":">>
SpoilerClose == <<"[", "/", "s", "p", "o", "i", "l", "e", "r", "]">>
FileOpen == <<"[", "f", "i", "l", "e", ":">>

UpperCase ==
    <<"A", "B", "C", "D", "E", "F", "G", "H", "I", "J", "K", "L", "M",
      "N", "O", "P", "Q", "R", "S", "T", "U", "V", "W", "X", "Y", "Z">>
LowerCase ==
    <<"a", "b", "c", "d", "e", "f", "g", "h", "i", "j", "k", "l", "m",
      "n", "o", "p", "q", "r", "s", "t", "u", "v", "w", "x", "y", "z">>

\* the flag i of a regular expression: letters are compared in lower case
ToLower(c) ==
    IF \E i \in DOMAIN UpperCase : UpperCase[i] = c
    THEN LowerCase[CHOOSE i \in DOMAIN UpperCase : UpperCase[i] = c]
    ELSE c

IsQuote(c) == c \in {"\"", "'"}
IsDigit(c) == c \in {"0", "1", "2", "3", "4", "5", "6", "7", "8", "9"}

\* the word w stands in s at position i; AtI compares with the flag i
At(s, i, w) ==
    /\ i >= 1 /\ i + Len(w) - 1 <= Len(s)
    /\ \A k \in 1..Len(w) : s[i + k - 1] = w[k]
AtI(s, i, w) ==
    /\ i >= 1 /\ i + Len(w) - 1 <= Len(s)
    /\ \A k \in 1..Len(w) : ToLower(s[i + k - 1]) = w[k]

Includes(s, w) == \E i \in 1..Len(s) : At(s, i, w)
IncludesI(s, w) == \E i \in 1..Len(s) : AtI(s, i, w)

\* w([^excluded]+): the word w followed by a character not in excluded
ThenNot(s, w, excluded) ==
    \E i \in 1..Len(s) :
        At(s, i, w) /\ i + Len(w) <= Len(s) /\ s[i + Len(w)] \notin excluded

\* w(\d+): the word w followed by a digit
ThenDigit(s, w) ==
    \E i \in 1..Len(s) :
        At(s, i, w) /\ i + Len(w) <= Len(s) /\ IsDigit(s[i + Len(w)])

\* https?:\/\/ with the flag i at position i: the position after it, or 0
SchemeEnd(s, i) ==
    IF AtI(s, i, HttpsScheme) THEN i + Len(HttpsScheme)
    ELSE IF AtI(s, i, HttpScheme) THEN i + Len(HttpScheme)
    ELSE 0

\* msg.text.match(/["']((https?:\/\/[^"']+))["']/i)
UrlInQuotes(text) ==
    \E i \in 1..Len(text) :
        /\ IsQuote(text[i])
        /\ LET k == SchemeEnd(text, i + 1)
           IN  /\ k > 0 /\ k <= Len(text)
               /\ ~IsQuote(text[k])
               /\ \E j \in (k + 1)..Len(text) : IsQuote(text[j])

\* msg.text.match(/^(https?:\/\/[^\s]+)$/i)
UrlPattern(text) ==
    LET k == SchemeEnd(text, 1)
    IN  /\ k > 0 /\ k <= Len(text)
        /\ \A j \in k..Len(text) : ~IsSpace(text[j])

\* url.match(/\.(ext|...)(\?.*)?$/i)
HasExtension(url, extensions) ==
    \E i \in 1..Len(url), e \in extensions :
        /\ url[i] = "."
        /\ AtI(url, i + 1, e)
        /\ \/ i + Len(e) = Len(url)
           \/ /\ url[i + Len(e) + 1] = "?"
              /\ \A k \in (i + Len(e) + 2)..Len(url) : url[k] # "\n"

IsYouTube(url) ==
    \/ IncludesI(url, <<"y", "o", "u", "t", "u", "b", "e", ".", "c", "o", "m">>)
    \/ IncludesI(url, <<"y", "o", "u", "t", "u", ".", "b", "e">>)

\* watchMatch [?&]v=([^&]+), shortMatch youtu\.be\/([^?&]+) or embedMatch
\* youtube\.com\/embed\/([^?&]+) gives an embedUrl
YouTubeEmbedUrl(url) ==
    \/ ThenNot(url, <<"?", "v", "=">>, {"&"})
    \/ ThenNot(url, <<"&", "v", "=">>, {"&"})
    \/ ThenNot(url, <<"y", "o", "u", "t", "u", ".", "b", "e", "/">>,
               {"?", "&"})
    \/ ThenNot(url, <<"y", "o", "u", "t", "u", "b", "e", ".", "c", "o", "m">>
                        \o <<"/", "e", "m", "b", "e", "d", "/">>,
               {"?", "&"})

IsVimeo(url) == IncludesI(url, <<"v", "i", "m", "e", "o", ".", "c", "o", "m">>)
VimeoId(url) ==
    ThenDigit(url, <<"v", "i", "m", "e", "o", ".", "c", "o", "m", "/">>)

IsTikTok(url) ==
    IncludesI(url, <<"t", "i", "k", "t", "o", "k", ".", "c", "o", "m">>)
TikTokId(url) == ThenDigit(url, <<"v", "i", "d", "e", "o", "/">>)

IsTwitch(url) == IncludesI(url, <<"t", "w", "i", "t", "c", "h", ".", "t", "v">>)
TwitchChannel(url) ==
    ThenNot(url, <<"t", "w", "i", "t", "c", "h", ".", "t", "v", "/">>, {"/"})

IsDailymotion(url) ==
    IncludesI(url, <<"d", "a", "i", "l", "y", "m", "o", "t", "i", "o", "n">>
                     \o <<".", "c", "o", "m">>)
DailymotionId(url) == ThenNot(url, <<"v", "i", "d", "e", "o", "/">>, {"_"})

IsSoundCloud(url) ==
    IncludesI(url, <<"s", "o", "u", "n", "d", "c", "l", "o", "u", "d", ".", "c", "o", "m">>)

\* the direct rules with the audio rule tried before the video rule
DirectKindAudioFirst(url) ==
    IF HasExtension(url, AudioExtensions) THEN "audio"
    ELSE IF HasExtension(url, VideoExtensions) THEN "video"
    ELSE IF HasExtension(url, ImageExtensions) THEN "image"
    ELSE IF HasExtension(url, DocumentExtensions) THEN "document"
    ELSE "iframe"

\* the rules for direct files, and the iframe for any other URL
DirectKind(url) ==
    IF HasExtension(url, VideoExtensions) THEN "video"
    ELSE IF HasExtension(url, AudioExtensions) THEN "audio"
    ELSE IF HasExtension(url, ImageExtensions) THEN "image"
    ELSE IF HasExtension(url, DocumentExtensions) THEN "document"
    ELSE "iframe"

\* the chain of if statements on a URL without quotes: a provider rule
\* returns only when its id was found
EmbedKind(url) ==
    IF IsYouTube(url) /\ YouTubeEmbedUrl(url) THEN "youtube"
    ELSE IF IsVimeo(url) /\ VimeoId(url) THEN "vimeo"
    ELSE IF IsTikTok(url) /\ TikTokId(url) THEN "tiktok"
    ELSE IF IsTwitch(url) /\ TwitchChannel(url) THEN "twitch"
    ELSE IF IsDailymotion(url) /\ DailymotionId(url) THEN "dailymotion"
    ELSE IF IsSoundCloud(url) THEN "soundcloud"
    ELSE DirectKind(url)

\* the first position >= from where the word w stands in s, or 0
IndexOf(s, w, from) ==
    IF \E i \in from..Len(s) : At(s, i, w)
    THEN Min({ i \in from..Len(s) : At(s, i, w) })
    ELSE 0

\* spoilerRegex /\[spoiler:([^\]]*)\]([\s\S]*?)\[\/spoiler\]/g at position i:
\* the title ends at the first ], the content at the nearest closing tag
TitleEnd(s, i) == IndexOf(s, <<"]">>, i + Len(SpoilerOpen))
ContentEnd(s, i) == IndexOf(s, SpoilerClose, TitleEnd(s, i) + 1)
SpoilerAt(s, i) ==
    At(s, i, SpoilerOpen) /\ TitleEnd(s, i) > 0 /\ ContentEnd(s, i) > 0

TextPart(text) == [kind |-> "text", text |-> text]

\* <SpoilerBlock title content ...>: useState(false) for isOpen
SpoilerBlock(title, content) ==
    [kind |-> "spoiler", title |-> title, content |-> content, isOpen |-> FALSE]

\* the while loop over spoilerRegex.exec(text), from partLastIndex on
RECURSIVE SpoilerParts(_, _)
SpoilerParts(text, partLastIndex) ==
    LET found == { i \in partLastIndex..Len(text) : SpoilerAt(text, i) }
    IN  IF found = {}
        THEN IF partLastIndex <= Len(text)
             THEN <<TextPart(SubSeq(text, partLastIndex, Len(text)))>>
             ELSE <<>>
        ELSE LET index == Min(found)
                 titleEnd == TitleEnd(text, index)
                 contentEnd == ContentEnd(text, index)
                 before == IF index > partLastIndex
                           THEN <<TextPart(SubSeq(text, partLastIndex, index - 1))>>
                           ELSE <<>>
                 block == SpoilerBlock(
                              SubSeq(text, index + Len(SpoilerOpen), titleEnd - 1),
                              SubSeq(text, titleEnd + 1, contentEnd - 1))
             IN  before \o <<block>>
                   \o SpoilerParts(text, contentEnd + Len(SpoilerClose))

\* fileLinkRegex /\[file:([^\]]+)\]/g at position i: the name is not empty
FileLinkEnd(s, i) == IndexOf(s, <<"]">>, i + Len(FileOpen))
FileLinkAt(s, i) ==
    At(s, i, FileOpen) /\ FileLinkEnd(s, i) > i + Len(FileOpen)

\* the while loop over fileLinkRegex.exec(part): a link that names the
\* attached file becomes the file, any other link stays as it was written
RECURSIVE FileLinkParts(_, _, _, _)
FileLinkParts(part, linkLastIndex, fileUrl, fileName) ==
    LET found == { i \in linkLastIndex..Len(part) : FileLinkAt(part, i) }
    IN  IF found = {}
        THEN IF linkLastIndex <= Len(part)
             THEN <<TextPart(SubSeq(part, linkLastIndex, Len(part)))>>
             ELSE <<>>
        ELSE LET index == Min(found)
                 end == FileLinkEnd(part, index)
                 linkedFileName == SubSeq(part, index + Len(FileOpen), end - 1)
                 before == IF index > linkLastIndex
                           THEN <<TextPart(SubSeq(part, linkLastIndex, index - 1))>>
                           ELSE <<>>
                 link == IF fileUrl # Null /\ fileName = linkedFileName
                         THEN [kind |-> "file", fileName |-> fileName]
                         ELSE TextPart(SubSeq(part, index, end))
             IN  before \o <<link>>
                   \o FileLinkParts(part, end + 1, fileUrl, fileName)

\* parts.map(...): the text parts are split at their file links
RECURSIVE MapParts(_, _, _)
MapParts(parts, fileUrl, fileName) ==
    IF parts = <<>> THEN <<>>
    ELSE (IF Head(parts).kind = "text"
          THEN FileLinkParts(Head(parts).text, 1, fileUrl, fileName)
          ELSE <<Head(parts)>>)
         \o MapParts(Tail(parts), fileUrl, fileName)

\* renderTextWithSpoilersAndLinks: the nodes in the order they are shown
RenderTextWithSpoilersAndLinks(text, fileUrl, fileName) ==
    MapParts(SpoilerParts(text, 1), fileUrl, fileName)

\* renderMessageContent: the src of an embed is left out, its kind is kept
RenderMessageContent(msg) ==
    IF msg.text = <<>> /\ msg.fileUrl = Null THEN [kind |-> "null"]
    ELSE IF UrlInQuotes(msg.text) THEN [kind |-> "link", text |-> msg.text]
    ELSE IF UrlPattern(msg.text)
    THEN [kind |-> EmbedKind(msg.text), url |-> msg.text]
    ELSE [kind |-> "text",
          parts |-> IF msg.text # <<>>
                    THEN RenderTextWithSpoilersAndLinks(msg.text, msg.fileUrl,
                                                        msg.fileName)
                    ELSE <<>>,
          attachment |->
              /\ msg.fileUrl # Null
              /\ ~Includes(msg.text, FileOpen \o msg.fileName \o <<"]">>)]

-----------------------------------------------------------------------------
(* The rendering specification: one text is typed, sent and shown *)

\* the parts the URLs typed are made of
UrlSchemes ==
    { <<"h", "t", "t", "p", "s", ":", "/", "/">>,
      <<"H", "T", "T", "P", ":", "/", "/">> }

UrlHosts ==
    { <<"y", "o", "u", "t", "u", "b", "e", ".", "c", "o", "m">>,
      <<"y", "o", "u", "t", "u", ".", "b", "e">>,
      <<"v", "i", "m", "e", "o", ".", "c", "o", "m">>,
      <<"t", "i", "k", "t", "o", "k", ".", "c", "o", "m">>,
      <<"t", "w", "i", "t", "c", "h", ".", "t", "v">>,
      <<"T", "W", "I", "T", "C", "H", ".", "T", "V">>,
      <<"d", "a", "i", "l", "y", "m", "o", "t", "i", "o", "n", ".", "c", "o", "m">>,
      <<"s", "o", "u", "n", "d", "c", "l", "o", "u", "d", ".", "c", "o", "m">>,
      <<"x", ".", "y">> }

UrlPaths ==
    { <<>>, <<"/">>, <<"/", "7">>,
      <<"/", "v", "i", "d", "e", "o", "/", "7">>,
      <<"/", "v", "i", "d", "e", "o", "/", "_">>,
      <<"/", "e", "m", "b", "e", "d", "/", "a">>,
      <<"/", "a", ".", "m", "p", "4">>, <<"/", "a", ".", "o", "g", "g">>,
      <<"/", "a", ".", "3", "g", "p">>, <<"/", "a", ".", "m", "p", "3">>,
      <<"/", "a", ".", "P", "N", "G">>, <<"/", "a", ".", "p", "d", "f">>,
      <<"/", "a", ".", "z", "i", "p">>,
      <<"/", "a", ".", "m", "3", "u", "8">> }

UrlQueries ==
    { <<>>, <<"?", "v", "=", "a">>, <<"?", "x">>,
      <<"?", "q", "=", "'", "h", "t", "t", "p", ":", "/", "/", "x", ".", "y", "'">> }

\* the parts the other texts typed are made of
MarkupParts ==
    { <<"[", "s", "p", "o", "i", "l", "e", "r", ":", "t", "]">>, <<"s">>,
      <<"[", "/", "s", "p", "o", "i", "l", "e", "r", "]">>, <<" ">>,
      <<"[", "f", "i", "l", "e", ":", "f", "]">>,
      <<"\"", "h", "t", "t", "p", ":", "/", "/", "x", ".", "y", "\"">> }

Urls ==
    { scheme \o host \o path \o query :
        scheme \in UrlSchemes, host \in UrlHosts,
        path \in UrlPaths, query \in UrlQueries }

\* the texts of at most n parts
RECURSIVE Compositions(_)
Compositions(n) ==
    IF n = 0 THEN { <<>> }
    ELSE Compositions(n - 1)
           \cup { t \o p : t \in Compositions(n - 1), p \in MarkupParts }

\* what is typed: a URL, a URL in quotes, a URL after a word, or markup
RenderTexts ==
    Urls \cup { <<"\"">> \o u \o <<"\"">> : u \in Urls }
         \cup { <<"a", " ">> \o u : u \in Urls }
         \cup (Compositions(MaxParts) \ { <<>> })

\* what /upload answered for the file sent with the message, if any
Files ==
    { [fileUrl |-> Null, fileType |-> Null, fileName |-> NullText],
      [fileUrl |-> "https://storage/f", fileType |-> "image/png",
       fileName |-> <<"f">>] }

\* the message of sendMessage (no file) or sendMessageWithFile has been
\* stored and fetched, and its bubble is rendered
ShowMessage(file) ==
    LET text == Trim(inputText)
        msg == [id |-> NowString, username |-> displayName, text |-> text,
                timestamp |-> now, replyTo |-> Null, fileUrl |-> file.fileUrl,
                fileType |-> file.fileType, fileName |-> file.fileName]
    IN  /\ messages = <<>>
        /\ file.fileUrl = Null => text # <<>> /\ text \notin {SetBg, SetTheme}
        /\ messages' = <<msg>>
        /\ inputText' = <<>>
        /\ view' = RenderMessageContent(msg)
        /\ UNCHANGED <<kv, now, resp, fetches, replyingTo, editingMessage,
                       displayName, isLoggedInUser, offRender>>

\* a text is typed or pasted into the empty input of an empty chat
ComposeText ==
    /\ inputText = <<>>
    /\ messages = <<>>
    /\ \E text \in RenderTexts : TypeText(text)

\* onClick of a spoiler block: setIsOpen(!isOpen)
ToggleSpoiler(i) ==
    /\ view.kind = "text"
    /\ i \in DOMAIN view.parts
    /\ view.parts[i].kind = "spoiler"
    /\ view' = [view EXCEPT !.parts[i].isOpen = ~@]
    /\ UNCHANGED <<serverVars, chatVars, offRender>>

RenderInit ==
    /\ kv = InitTable
    /\ now = 0
    /\ resp = [status |-> 0]
    /\ ChatIdle
    /\ SettingsIdle
    /\ PresenceIdle
    /\ RenderIdle
    /\ FetchIdle

RenderNext ==
    \/ ComposeText
    \/ \E file \in Files : ShowMessage(file)
    \/ \E i \in 1..MaxParts : ToggleSpoiler(i)

RenderSpec == RenderInit /\ [][RenderNext]_vars

-----------------------------------------------------------------------------
(* Claims checked under RenderSpec *)

C6_Rules ==
    <<"youtube", "vimeo", "tiktok", "twitch", "dailymotion", "soundcloud",
      "video", "audio", "image", "document", "iframe">>

\* the rule applies: the provider is named and its video id can be
\* extracted, or the URL ends in an extension of the list
C6_Applies(rule, url) ==
    CASE rule = "youtube" -> IsYouTube(url) /\ YouTubeEmbedUrl(url)
      [] rule = "vimeo" -> IsVimeo(url) /\ VimeoId(url)
      [] rule = "tiktok" -> IsTikTok(url) /\ TikTokId(url)
      [] rule = "twitch" -> IsTwitch(url) /\ TwitchChannel(url)
      [] rule = "dailymotion" -> IsDailymotion(url) /\ DailymotionId(url)
      [] rule = "soundcloud" -> IsSoundCloud(url)
      [] rule = "video" -> HasExtension(url, VideoExtensions)
      [] rule = "audio" -> HasExtension(url, AudioExtensions)
      [] rule = "image" -> HasExtension(url, ImageExtensions)
      [] rule = "document" -> HasExtension(url, DocumentExtensions)
      [] rule = "iframe" -> TRUE

C6_Bare(text) == UrlPattern(text) /\ ~UrlInQuotes(text)

C7_Source(node) ==
    CASE node.kind = "text" -> node.text
      [] node.kind = "spoiler" ->
             SpoilerOpen \o node.title \o <<"]">> \o node.content \o SpoilerClose
      [] node.kind = "file" -> FileOpen \o node.fileName \o <<"]">>

RECURSIVE C7_Flatten(_)
C7_Flatten(nodes) ==
    IF nodes = <<>> THEN <<>>
    ELSE C7_Source(Head(nodes)) \o C7_Flatten(Tail(nodes))

\* the nodes shown: a link shows the whole text as its label
C7_Nodes(v) ==
    IF v.kind = "link" THEN <<TextPart(v.text)>>
    ELSE IF v.kind = "text" THEN v.parts
    ELSE <<>>

C7_WellFormedSpanIn(text) == \E i \in 1..Len(text) : SpoilerAt(text, i)

\* C7 (as claimed): in a message text that is not a URL, every well-formed
\* [spoiler:title]...[/spoiler] span is shown as one block, closed when it
\* is first shown, whose content ends at the nearest closing tag; the rest
\* of the text is shown in its order with no character lost or duplicated;
\* and no well-formed span is left in what is shown as plain text.
C7_SpoilersCollapsed ==
    /\ []((messages # <<>> /\ messages[1].text # <<>>
              /\ ~UrlPattern(messages[1].text)) =>
             /\ C7_Flatten(C7_Nodes(view)) = messages[1].text
             /\ \A i \in DOMAIN C7_Nodes(view) :
                    /\ C7_Nodes(view)[i].kind = "text" =>
                           ~C7_WellFormedSpanIn(C7_Nodes(view)[i].text)
                    /\ C7_Nodes(view)[i].kind = "spoiler" =>
                           /\ ~Includes(C7_Nodes(view)[i].title, <<"]">>)
                           /\ ~Includes(C7_Nodes(view)[i].content, SpoilerClose))
    /\ [][\A file \in Files :
            ShowMessage(file) =>
                \A i \in DOMAIN C7_Nodes(view') :
                    C7_Nodes(view')[i].kind = "spoiler" =>
                        ~C7_Nodes(view')[i].isOpen]_vars


-----------------------------------------------------------------------------
(* Sending and fetching with the network in between: a POST /messages can  *)
(* fail, and the response of a GET /messages is delivered some time after  *)
(* the server has answered it, in any order with the other responses.      *)

\* how a POST /messages can fail: fetch rejects and the request never reached
\* the server, or the server answers 500
Failures == {"network error", "server error"}

\* sendMessage when the POST fails: a rejected fetch goes to the catch; an
\* answer of any status resolves it, and the lines after the await run
SendMessageFails(failure) ==
    LET text == Trim(inputText)
        out == PostMessagesFails(kv)
    IN  /\ editingMessage = NoMsg
        /\ text # <<>>
        /\ text \notin {SetBg, SetTheme}
        /\ CanFetch
        /\ IF failure = "network error"
           THEN UNCHANGED <<kv, resp, inputText, replyingTo, fetches>>
           ELSE /\ kv' = out.kv
                /\ resp' = out.resp
                /\ inputText' = <<>>
                /\ replyingTo' = NoMsg
                /\ fetches' = FetchMessages
        /\ UNCHANGED <<now, messages, editingMessage, displayName,
                       isLoggedInUser, offChat>>

\* fetchMessages: the server answers the GET from the table as it is now
FetchServed(r) ==
    /\ fetches > 0
    /\ responses[r] = Idle
    /\ fetches' = fetches - 1
    /\ \E list \in GetMessages(kv) :
           /\ responses' = [responses EXCEPT ![r] =
                                [pc |-> "json", messages |-> list]]
           /\ lastRead' = [messages |-> list]
    /\ resp' = [status |-> 200, success |-> TRUE]
    /\ UNCHANGED <<kv, now, messages, inputText, replyingTo, editingMessage,
                   displayName, isLoggedInUser, offFetch>>

\* fetchMessages from res.json() on: setMessages(data.messages)
FetchDelivered(r) ==
    /\ responses[r] # Idle
    /\ messages' = responses[r].messages
    /\ responses' = [responses EXCEPT ![r] = Idle]
    /\ UNCHANGED <<kv, now, resp, fetches, inputText, replyingTo,
                   editingMessage, displayName, isLoggedInUser, lastRead,
                   offFetch>>

FetchNext ==
    \/ Tick
    \/ \E text \in InputTexts : TypeText(text)
    \/ \E id \in ClientIds : HandleReply(id)
    \/ SendMessage
    \/ \E failure \in Failures : SendMessageFails(failure)
    \/ PollMessages
    \/ \E r \in Requests : FetchServed(r)
    \/ \E r \in Requests : FetchDelivered(r)

FetchSpec == ChatInit /\ [][FetchNext]_vars

\* C22 (as claimed): once every response of the fetchMessages calls made has
\* been delivered, the list the client shows is the answer of the GET
\* /messages the server served last, whatever order the responses came in.
C22_ShowsTheLatestSnapshot ==
    (/\ fetches = 0
     /\ \A r \in Requests : responses[r] = Idle
     /\ lastRead # NoMsg)
        => messages = lastRead.messages

\* C23 (as claimed): sendMessage clears the input text and the reply target
\* when the server has stored the message, and keeps both when the POST
\* fails, by a network error or by an answer of 500 with success = false.
C23_ClearsOnlyWhenStored ==
    [][/\ SendMessage => inputText' = <<>> /\ replyingTo' = NoMsg
       /\ \A failure \in Failures :
              SendMessageFails(failure) =>
                  inputText' = inputText /\ replyingTo' = replyingTo]_vars

=============================================================================
